---------------------------- MODULE Spec2Model ----------------------------
(***************************************************************************)
(* A model of podcast-to-blog: the daily usage ledger (config/             *)
(* usage_limiter.py), the job pipeline and its task registry (app.py), the *)
(* article generator (core/blog_generator.py) and the WordPress poster     *)
(* (core/wordpress_poster.py).                                             *)
(*                                                                         *)
(* Each component has its own specification over the shared variables:     *)
(*   SpecQuotaSerial      use_quota calls, one at a time                   *)
(*   SpecQuotaConcurrent  use_quota calls of concurrent request threads    *)
(*   SpecGenerate         one BlogGenerator.generate_article call          *)
(*   SpecPublish          one WordPressPoster life: _login / post_article  *)
(*   Spec                 api_process and the background workers           *)
(***************************************************************************)
EXTENDS Integers, Sequences, FiniteSets, TLC

(***************************************************************************)
(* Bounds of the model and constants of the program.                       *)
(***************************************************************************)

\* UsageLimiter(daily_limit=5), app.py line 23
daily_limit == 5

\* timedelta(days=7) in cleanup_old_logs
RetentionDays == 7

\* the model's calendar: day keys 0..MaxDay (a key "%Y-%m-%d" orders as its date);
\* behaviours start on day RetentionDays, with an older entry in the ledger
MaxDay == 8

\* request threads that may be inside use_quota at once
NumWorkers == 2

\* use_quota calls started in one behaviour
MaxCalls == 3

Days == 0..MaxDay

Workers == 1..NumWorkers

\* request.remote_addr; NoIp is a falsy address (None)
NoIp == "none"

ClientIps == {"ip1", "ip2", NoIp}

VARIABLES
    \* ---- usage ledger ----
    clock,       \* the current JST day (datetime.utcnow() + 9h, as a day number)
    usage_log,   \* the file USAGE_LOG_FILE: [valid, data]; not valid = absent JSON
    uq_pc,       \* per worker: where it is inside use_quota
    uq_ip,       \* per worker: the client_ip argument
    uq_today,    \* per worker: the local today_key
    uq_log,      \* per worker: the local log_data
    uq_ret,      \* per worker: what the last use_quota call returned
    consumed,    \* per day key: the use_quota calls that returned success
    uq_info,     \* per worker: the local usage_info
    uq_before,   \* per worker: the file as it was when the call began
    uq_calls,    \* use_quota calls started
    \* ---- BlogGenerator.generate_article ----
    gen_pc,      \* where the call is
    gen_min,     \* user_settings["article"]["min_characters"]
    gen_attempt, \* the loop variable attempt of _generate_with_claude
    gen_trace,   \* what the backend did at each invocation of this call
    gen_waits,   \* the wait_time of each time.sleep, in 1/JitterSteps units
    gen_content, \* the streamed response text (content), a sequence of tokens
    gen_how,     \* which json.loads of _generate_with_claude returned
    gen_article, \* article_data
    gen_error,   \* the exception generate_article raised
    \* ---- WordPressPoster ----
    pub_settings, \* the wordpress_settings the poster was constructed with
    pub_article,  \* the article_data argument of post_article
    pub_session,  \* self.session: "None" or "Session"
    pub_pc,       \* where the running call is
    pub_entry,    \* the running call: post_article, or _login called directly
    pub_login,    \* what self._login() returned to the running post_article call
    pub_requests, \* the HTTP requests the running call has sent
    pub_url,      \* response.url of the last response
    pub_hidden,   \* hidden_fields harvested from the editor page
    pub_ret,      \* what the last post_article call returned
    pub_login_ret, \* what the last direct _login call returned
    pub_calls,    \* calls made on the poster
    \* ---- app.py ----
    default_wordpress, \* DEFAULT_SETTINGS["wordpress"], the one dict object
    env_file,          \* the WORDPRESS_ lines of .env
    processing_status, \* app.processing_status: task id -> task record
    job_pc,            \* per job: where its request or worker is
    job_response,      \* per job: what api_process answered
    job_settings,      \* per job: the settings of the request (user_settings)
    job_ip,            \* per job: request.remote_addr
    job_ops,           \* per job: the registry writes its worker is about to make
    job_article,       \* per job: the worker's local article_data, << >> while unbound
    job_stages,        \* per job: the steps whose stage has started, in order
    job_failed,        \* per job: the stage that failed
    job_wp,            \* per job: the wp_settings its worker read at line 307, << >> before
    poll_view,         \* what the last api_status request read: [task_id, status]
    job_updates        \* per job: update_status calls and failure records begun on its task

quotaVars == <<clock, usage_log, uq_pc, uq_ip, uq_today, uq_log, uq_ret, uq_info, uq_before,
               consumed, uq_calls>>

genVars == <<gen_pc, gen_min, gen_attempt, gen_trace, gen_waits, gen_content, gen_how, gen_article, gen_error>>

pubVars == <<pub_settings, pub_article, pub_session, pub_pc, pub_entry, pub_login, pub_requests,
             pub_url, pub_hidden, pub_ret, pub_login_ret, pub_calls>>

appVars == <<default_wordpress, env_file, processing_status, job_pc, job_response,
             job_settings, job_ip, job_ops, job_article, job_stages, job_failed>>

obsVars == <<job_wp, poll_view, job_updates>>

vars == <<quotaVars, genVars, pubVars, appVars, obsVars>>

(***************************************************************************)
(* config/usage_limiter.py                                                 *)
(***************************************************************************)

\* the empty dict {}
EmptyDict == [k \in {} |-> 0]

\* {"total": 0, "ips": {}}
NewDayData == [total |-> 0, ips |-> EmptyDict]

\* dict assignment d[k] = v
DictSet(d, k, v) == [x \in DOMAIN d \cup {k} |-> IF x = k THEN v ELSE d[x]]

\* d.get(k, default)
DictGet(d, k, default) == IF k \in DOMAIN d THEN d[k] ELSE default

Max(a, b) == IF a >= b THEN a ELSE b

\* get_today_key: the JST date of now
get_today_key == clock

\* load_usage_log: the parsed file, {} when it is missing or does not parse
load_usage_log == IF usage_log.valid THEN usage_log.data ELSE EmptyDict

\* get_usage_info from a loaded log and today's key (off-by-one variant of can_use)
get_usage_info_lax(log_data, today_key) ==
    LET today_data == DictGet(log_data, today_key, NewDayData)
        total_used == today_data.total
        remaining  == Max(0, daily_limit - total_used)
    IN  [total_used  |-> total_used,
         daily_limit |-> daily_limit,
         remaining   |-> remaining,
         can_use     |-> remaining >= 0,
         next_reset  |-> today_key + 1]

\* get_usage_info from a loaded log and today's key
get_usage_info(log_data, today_key) ==
    LET today_data == DictGet(log_data, today_key, NewDayData)
        total_used == today_data.total
        remaining  == Max(0, daily_limit - total_used)
    IN  [total_used  |-> total_used,
         daily_limit |-> daily_limit,
         remaining   |-> remaining,
         can_use     |-> remaining > 0,
         next_reset  |-> today_key + 1]

\* use_quota lines 77-86 counting the client and not the total (variant)
RecordUse_client_only(log_data, today_key, client_ip) ==
    LET day0 == DictGet(log_data, today_key, NewDayData)
        ips1 == IF client_ip # NoIp
                THEN DictSet(day0.ips, client_ip, DictGet(day0.ips, client_ip, 0) + 1)
                ELSE day0.ips
    IN  DictSet(log_data, today_key, [total |-> day0.total, ips |-> ips1])

\* use_quota lines 77-86: today's entry created if missing, total and the
\* client's count incremented
RecordUse(log_data, today_key, client_ip) ==
    LET day0 == DictGet(log_data, today_key, NewDayData)
        ips1 == IF client_ip # NoIp
                THEN DictSet(day0.ips, client_ip, DictGet(day0.ips, client_ip, 0) + 1)
                ELSE day0.ips
    IN  DictSet(log_data, today_key, [total |-> day0.total + 1, ips |-> ips1])

\* cleanup_old_logs deleting the cutoff day as well (off-by-one variant)
cleanup_old_logs_inclusive(log_data, now) ==
    LET cutoff_key == now - RetentionDays
    IN  [k \in {x \in DOMAIN log_data : ~(x <= cutoff_key)} |-> log_data[k]]

\* cleanup_old_logs: keys before the cutoff (now - 7 days) are deleted
cleanup_old_logs(log_data, now) ==
    LET cutoff_key == now - RetentionDays
    IN  [k \in {x \in DOMAIN log_data : ~(x < cutoff_key)} |-> log_data[k]]

\* a file holding this log
Saved(log_data) == [valid |-> TRUE, data |-> log_data]

\* a truncated or partly written file: json.load raises on it
Unparsable == [valid |-> FALSE, data |-> EmptyDict]

\* the usage_info local before get_usage_info has run
NoInfo == [total_used |-> 0, daily_limit |-> 0, remaining |-> 0,
           can_use |-> FALSE, next_reset |-> 0]

RetOk == "recorded"

RetLimit == "limit_reached"

RetSaveFailed == "save_failed"

\* a request thread enters use_quota
UqCall(w, client_ip) ==
    /\ uq_pc[w] = "idle"
    /\ uq_calls < MaxCalls
    /\ uq_calls' = uq_calls + 1
    /\ uq_pc' = [uq_pc EXCEPT ![w] = "check"]
    /\ uq_ip' = [uq_ip EXCEPT ![w] = client_ip]
    /\ uq_ret' = [uq_ret EXCEPT ![w] = "running"]
    /\ uq_before' = [uq_before EXCEPT ![w] = usage_log]
    /\ UNCHANGED <<clock, usage_log, uq_today, uq_log, uq_info, consumed>>
    /\ UNCHANGED <<genVars, pubVars, appVars, obsVars>>

\* use_quota returns: its locals are gone
UqReturn(w, ret) ==
    /\ uq_pc' = [uq_pc EXCEPT ![w] = "idle"]
    /\ uq_ret' = [uq_ret EXCEPT ![w] = ret]
    /\ uq_ip' = [uq_ip EXCEPT ![w] = NoIp]
    /\ uq_today' = [uq_today EXCEPT ![w] = 0]
    /\ uq_log' = [uq_log EXCEPT ![w] = EmptyDict]
    /\ uq_info' = [uq_info EXCEPT ![w] = NoInfo]
    /\ uq_before' = [uq_before EXCEPT ![w] = Saved(EmptyDict)]

\* lines 68-71: usage_info = get_usage_info(); refuse unless can_use
UqCheck(w) ==
    /\ uq_pc[w] = "check"
    /\ LET usage_info == get_usage_info(load_usage_log, get_today_key)
       IN  IF usage_info.can_use
           THEN /\ uq_pc' = [uq_pc EXCEPT ![w] = "load"]
                /\ uq_info' = [uq_info EXCEPT ![w] = usage_info]
                /\ UNCHANGED <<uq_ret, uq_ip, uq_today, uq_log, uq_before>>
           ELSE UqReturn(w, RetLimit)
    /\ UNCHANGED <<clock, usage_log, consumed, uq_calls>>
    /\ UNCHANGED <<genVars, pubVars, appVars, obsVars>>

\* lines 74-86: today_key, a fresh load of the file, the increments
UqLoad(w) ==
    /\ uq_pc[w] = "load"
    /\ uq_today' = [uq_today EXCEPT ![w] = get_today_key]
    /\ uq_log' = [uq_log EXCEPT ![w] = RecordUse(load_usage_log, get_today_key, uq_ip[w])]
    /\ uq_pc' = [uq_pc EXCEPT ![w] = "cleanup"]
    /\ UNCHANGED <<clock, usage_log, uq_ip, uq_ret, uq_info, uq_before, consumed, uq_calls>>
    /\ UNCHANGED <<genVars, pubVars, appVars, obsVars>>

\* line 89: cleanup_old_logs(log_data), with its own reading of the clock
UqCleanup(w) ==
    /\ uq_pc[w] = "cleanup"
    /\ uq_log' = [uq_log EXCEPT ![w] = cleanup_old_logs(uq_log[w], clock)]
    /\ uq_pc' = [uq_pc EXCEPT ![w] = "open"]
    /\ UNCHANGED <<clock, usage_log, uq_ip, uq_today, uq_ret, uq_info, uq_before, consumed, uq_calls>>
    /\ UNCHANGED <<genVars, pubVars, appVars, obsVars>>

\* save_usage_log, open(log_file, 'w'): the file is truncated
UqSaveOpen(w) ==
    /\ uq_pc[w] = "open"
    /\ usage_log' = Unparsable
    /\ uq_pc' = [uq_pc EXCEPT ![w] = "write"]
    /\ UNCHANGED <<clock, uq_ip, uq_today, uq_log, uq_ret, uq_info, uq_before, consumed, uq_calls>>
    /\ UNCHANGED <<genVars, pubVars, appVars, obsVars>>

\* save_usage_log, open raises: use_quota returns (False, save failed)
UqSaveOpenFails(w) ==
    /\ uq_pc[w] = "open"
    /\ UqReturn(w, RetSaveFailed)
    /\ UNCHANGED <<clock, usage_log, consumed, uq_calls>>
    /\ UNCHANGED <<genVars, pubVars, appVars, obsVars>>

\* save_usage_log, json.dump and close: the log is written from offset 0 and
\* use_quota returns (True, recorded).  When another writer has written since
\* this one's open, the file may keep a tail of that longer text and not parse.
UqSaveWrite(w) ==
    /\ uq_pc[w] = "write"
    /\ usage_log' \in (IF usage_log.valid THEN {Saved(uq_log[w]), Unparsable}
                                         ELSE {Saved(uq_log[w])})
    /\ consumed' = [consumed EXCEPT ![uq_today[w]] = @ + 1]
    /\ UqReturn(w, RetOk)
    /\ UNCHANGED <<clock, uq_calls>>
    /\ UNCHANGED <<genVars, pubVars, appVars, obsVars>>

\* save_usage_log, json.dump raises part way: the file stays unparsable and
\* use_quota returns (False, save failed)
UqSaveWriteFails(w) ==
    /\ uq_pc[w] = "write"
    /\ usage_log' = Unparsable
    /\ UqReturn(w, RetSaveFailed)
    /\ UNCHANGED <<clock, consumed, uq_calls>>
    /\ UNCHANGED <<genVars, pubVars, appVars, obsVars>>

\* midnight JST passes
Midnight ==
    /\ clock < MaxDay
    /\ clock' = clock + 1
    /\ UNCHANGED <<usage_log, uq_pc, uq_ip, uq_today, uq_log, uq_ret, uq_info, uq_before, consumed,
                   uq_calls>>
    /\ UNCHANGED <<genVars, pubVars, appVars, obsVars>>

\* the ledger after n recorded uses by ip1 on day d
LogWith(log_data, d, n) ==
    IF n = 0 THEN log_data
    ELSE DictSet(log_data, d, [total |-> n, ips |-> DictSet(EmptyDict, "ip1", n)])

\* the service has run before: a day RetentionDays ago may have an entry, and
\* today has had n uses so far
InitQuota ==
    /\ clock = RetentionDays
    /\ \E old \in 0..1, n \in 0..daily_limit :
          /\ usage_log = Saved(LogWith(LogWith(EmptyDict, 0, old), RetentionDays, n))
          /\ consumed = [d \in Days |-> IF d = RetentionDays THEN n
                                        ELSE IF d = 0 THEN old ELSE 0]
    /\ uq_pc = [w \in Workers |-> "idle"]
    /\ uq_ip = [w \in Workers |-> NoIp]
    /\ uq_today = [w \in Workers |-> 0]
    /\ uq_log = [w \in Workers |-> EmptyDict]
    /\ uq_ret = [w \in Workers |-> "none"]
    /\ uq_info = [w \in Workers |-> NoInfo]
    /\ uq_before = [w \in Workers |-> Saved(EmptyDict)]
    /\ uq_calls = 0


UqStep(w) ==
    \/ UqCheck(w)
    \/ UqLoad(w)
    \/ UqCleanup(w)
    \/ UqSaveOpen(w)
    \/ UqSaveOpenFails(w)
    \/ UqSaveWrite(w)
    \/ UqSaveWriteFails(w)

(***************************************************************************)
(* core/blog_generator.py                                                  *)
(***************************************************************************)

\* max_retries = 3 in _generate_with_claude
max_retries == 3

\* the response text is at most MaxTokens tokens long
MaxTokens == 5

\* article content is at most MaxContent characters long
MaxContent == 4

\* min_characters settings range over 0..MaxMin
MaxMin == 2

\* random.uniform(0, 1) takes the values 0, 1/JitterSteps, .., 1
JitterSteps == 1

\* The response text, token by token: LBRACE an opening brace, RBRACE a
\* closing brace, TEXT prose, FENCE_JSON the fence line tagged json (three
\* backquotes and the word json) and FENCE the bare fence line.  Member text
\* other than nested objects is well formed and folded into the braces.
Tokens == {"LBRACE", "RBRACE", "TEXT", "FENCE_JSON", "FENCE"}

Responses == UNION {[1..n -> Tokens] : n \in 0..MaxTokens}

IsOpen(t) == t = "LBRACE"

IsClose(t) == t = "RBRACE"

IsBrace(t) == IsOpen(t) \/ IsClose(t)

\* three backquotes occur in both fence tokens
HasFence(t) == t \in {"FENCE_JSON", "FENCE"}

SetMin(S) == CHOOSE x \in S : \A y \in S : x <= y

RECURSIVE ObjectEnd(_, _)
RECURSIVE MembersEnd(_, _)

\* the index after the JSON object that starts at s[i]; 0 if there is none
ObjectEnd(s, i) ==
    IF i > Len(s) \/ ~IsOpen(s[i]) THEN 0 ELSE MembersEnd(s, i + 1)

\* the index after the brace closing the object whose members start at s[j]
MembersEnd(s, j) ==
    IF j > Len(s) THEN 0
    ELSE IF IsClose(s[j]) THEN j + 1
    ELSE IF IsOpen(s[j])
         THEN LET e == ObjectEnd(s, j) IN IF e = 0 THEN 0 ELSE MembersEnd(s, e)
         ELSE 0

\* json.loads(s, strict=False) does not raise JSONDecodeError: s is one object
\* and nothing else
json_loads_ok(s) == Len(s) > 0 /\ ObjectEnd(s, 1) = Len(s) + 1

\* the first re.search of the handler (a json fence, any text taken lazily,
\* a fence): where it matches (0 if nowhere) and the index of the closing fence
FenceStart(s) ==
    LET starts == {i \in 1..Len(s) :
                      s[i] = "FENCE_JSON" /\ \E j \in (i + 1)..Len(s) : HasFence(s[j])}
    IN  IF starts = {} THEN 0 ELSE SetMin(starts)

FenceClose(s, i) == SetMin({j \in (i + 1)..Len(s) : HasFence(s[j])})

\* json_match.group(1).strip()
FenceGroup(s) ==
    LET i == FenceStart(s) IN SubSeq(s, i + 1, FenceClose(s, i) - 1)

\* the inner group of the brace pattern (an opening brace, characters that are
\* no braces, a closing brace) at s[j]: the index after it, 0 if no match
InnerEnd(s, j) ==
    LET braces == {k \in (j + 1)..Len(s) : IsBrace(s[k])}
    IN  IF braces # {} /\ IsClose(s[SetMin(braces)]) THEN SetMin(braces) + 1 ELSE 0

RECURSIVE StarEnd(_, _)

\* where the starred part of the brace pattern (characters that are no braces
\* and inner groups) stops when it starts at s[j]
StarEnd(s, j) ==
    IF j > Len(s) THEN j
    ELSE IF ~IsBrace(s[j]) THEN StarEnd(s, j + 1)
    ELSE IF IsOpen(s[j]) /\ InnerEnd(s, j) # 0 THEN StarEnd(s, InnerEnd(s, j))
    ELSE j

\* the brace pattern (an opening brace, the starred part, a closing brace)
\* matches at s[i]
BraceMatchAt(s, i) ==
    /\ IsOpen(s[i])
    /\ LET e == StarEnd(s, i + 1) IN e <= Len(s) /\ IsClose(s[e])

\* the second re.search of the handler: where the brace pattern first matches
BraceStart(s) ==
    LET starts == {i \in 1..Len(s) : BraceMatchAt(s, i)}
    IN  IF starts = {} THEN 0 ELSE SetMin(starts)

\* json_match.group(0)
BraceGroup(s) ==
    LET i == BraceStart(s) IN SubSeq(s, i, StarEnd(s, i + 1))

ParseFailed == [ok |-> FALSE, how |-> "none", text |-> << >>]

Parsed(how, text) == [ok |-> TRUE, how |-> how, text |-> text]

\* _generate_with_claude lines 166-190: json.loads(content); on JSONDecodeError
\* the fenced block if the first search matches, else the brace span if the
\* second search matches; a JSONDecodeError inside the handler, or no match,
\* ends in the handler's raise
ParseResponse(content) ==
    IF json_loads_ok(content) THEN Parsed("direct", content)
    ELSE IF FenceStart(content) # 0
         THEN IF json_loads_ok(FenceGroup(content))
              THEN Parsed("fenced", FenceGroup(content))
              ELSE ParseFailed
    ELSE IF BraceStart(content) # 0
         THEN IF json_loads_ok(BraceGroup(content))
              THEN Parsed("brace", BraceGroup(content))
              ELSE ParseFailed
    ELSE ParseFailed

\* article content, character by character: "c" is a text character
ContentChars == {"c", "<", ">"}

Contents == UNION {[1..n -> ContentChars] : n \in 0..MaxContent}

\* a key the parsed object does not have
AbsentTitle == "absent"

AbsentContent == <<"absent">>

Titles == {"", "T"}

\* the dict an object decodes to: "title" and "content" when it has them
ArticleDict(title, content) ==
    [k \in (IF title = AbsentTitle THEN {} ELSE {"title"})
           \cup (IF content = AbsentContent THEN {} ELSE {"content"})
       |-> IF k = "title" THEN title ELSE content]

RECURSIVE StripFrom(_, _)

\* re.sub of the tag pattern (a less-than sign, one or more characters that
\* are no greater-than sign, a greater-than sign) by nothing, from index i on
StripFrom(s, i) ==
    IF i > Len(s) THEN << >>
    ELSE LET closes == {k \in (i + 1)..Len(s) : s[k] = ">"}
         IN  IF s[i] = "<" /\ closes # {} /\ SetMin(closes) >= i + 2
             THEN StripFrom(s, SetMin(closes) + 1)
             ELSE <<s[i]>> \o StripFrom(s, i + 1)

\* re.sub of the tag pattern on article_data.get('content', '')
StripTags(s) == StripFrom(s, 1)

\* len(content_text) in _ensure_minimum_length
CharCount(article_data) == Len(StripTags(DictGet(article_data, "content", << >>)))

\* _ensure_minimum_length without its length test
ensure_minimum_length_unchecked(article_data, min_characters) ==
    [raised |-> "none", value |-> article_data]

\* _ensure_minimum_length: the article when it is long enough; otherwise the
\* call _expand_article(article_data, min_characters, episode_url) is evaluated,
\* and episode_url is no name of that scope: NameError
ensure_minimum_length(article_data, min_characters) ==
    IF CharCount(article_data) < min_characters
    THEN [raised |-> "NameError", value |-> article_data]
    ELSE [raised |-> "none", value |-> article_data]

\* the exception messages of the backend, word by word
ErrorMessages == {<<"Overloaded">>, <<"error", "overloaded_error">>,
                  <<"timeout">>, <<"error", "rate_limit">>}

\* str.lower of a word
Lower(word) == IF word = "Overloaded" THEN "overloaded" ELSE word

\* "overloaded" occurs in the word
HasOverloaded(word) == word \in {"overloaded", "overloaded_error"}

\* "overloaded" in str(e).lower()
IsOverloaded(msg) == \E i \in 1..Len(msg) : HasOverloaded(Lower(msg[i]))

\* a retry whatever the exception says
ShouldRetryAny(msg, attempt) == attempt < max_retries - 1

\* a retry after every overload, whatever the attempt
ShouldRetryUncapped(msg, attempt) == IsOverloaded(msg)

\* line 193: "overloaded" in str(e).lower() and attempt < max_retries - 1
ShouldRetry(msg, attempt) == IsOverloaded(msg) /\ attempt < max_retries - 1

Pow2(n) == IF n = 0 THEN 1 ELSE IF n = 1 THEN 2 ELSE IF n = 2 THEN 4 ELSE 8

\* a backoff that starts at two units (variant)
wait_time_from_two(attempt, jitter) == Pow2(attempt + 1) * JitterSteps + jitter

\* line 194: (2 ** attempt) + random.uniform(0, 1), in 1/JitterSteps units
wait_time(attempt, jitter) == Pow2(attempt) * JitterSteps + jitter

NoArticle == ArticleDict(AbsentTitle, AbsentContent)

\* generate_article is called (lines 23-35); the prompt is built
GenCall ==
    /\ gen_pc = "idle"
    /\ gen_pc' = "invoke"
    /\ gen_attempt' = 0
    /\ UNCHANGED <<gen_min, gen_trace, gen_waits, gen_content, gen_how, gen_article, gen_error>>
    /\ UNCHANGED <<quotaVars, pubVars, appVars, obsVars>>

\* the stream raises: a retry after the sleep when ShouldRetry, otherwise
\* the exception leaves _generate_with_claude and generate_article
GenBackendRaises(msg) ==
    /\ gen_pc = "invoke"
    /\ gen_trace' = Append(gen_trace, IF IsOverloaded(msg) THEN "overloaded" ELSE "other")
    /\ IF ShouldRetry(msg, gen_attempt)
       THEN /\ \E jitter \in 0..JitterSteps :
                  gen_waits' = Append(gen_waits, wait_time(gen_attempt, jitter))
            /\ gen_attempt' = gen_attempt + 1
            /\ UNCHANGED <<gen_pc, gen_error>>
       ELSE /\ gen_pc' = "raised"
            /\ gen_error' = IF IsOverloaded(msg) THEN "overloaded" ELSE "other"
            /\ UNCHANGED <<gen_waits, gen_attempt>>
    /\ UNCHANGED <<gen_min, gen_content, gen_how, gen_article>>
    /\ UNCHANGED <<quotaVars, pubVars, appVars, obsVars>>

\* the stream ends: content holds the whole response
GenBackendStreams(content) ==
    /\ gen_pc = "invoke"
    /\ gen_trace' = Append(gen_trace, "content")
    /\ gen_content' = content
    /\ gen_pc' = "parse"
    /\ UNCHANGED <<gen_min, gen_attempt, gen_waits, gen_how, gen_article, gen_error>>
    /\ UNCHANGED <<quotaVars, pubVars, appVars, obsVars>>

\* lines 166-190: one of the json.loads calls returns, or the handler raises
\* (content is kept for the log of its first 500 characters)
GenParse ==
    /\ gen_pc = "parse"
    /\ LET r == ParseResponse(gen_content)
       IN  IF r.ok
           THEN /\ gen_how' = r.how
                /\ gen_content' = << >>
                /\ gen_pc' = "loaded"
                /\ UNCHANGED gen_error
           ELSE /\ gen_pc' = "raised"
                /\ gen_error' = "parse"
                /\ UNCHANGED <<gen_how, gen_content>>
    /\ UNCHANGED <<gen_min, gen_attempt, gen_trace, gen_waits, gen_article>>
    /\ UNCHANGED <<quotaVars, pubVars, appVars, obsVars>>

\* the value json.loads returned is article_data: a dict with or without a
\* title and a content
GenLoaded(title, content) ==
    /\ gen_pc = "loaded"
    /\ gen_article' = ArticleDict(title, content)
    /\ gen_pc' = "ensure"
    /\ UNCHANGED <<gen_min, gen_attempt, gen_trace, gen_waits, gen_content, gen_how, gen_error>>
    /\ UNCHANGED <<quotaVars, pubVars, appVars, obsVars>>

\* generate_article lines 38-44: _ensure_minimum_length, then the log line
\* that reads article_data['title'], then the return
GenEnsure ==
    /\ gen_pc = "ensure"
    /\ LET e == ensure_minimum_length(gen_article, gen_min)
       IN  IF e.raised # "none"
           THEN gen_pc' = "raised" /\ gen_error' = e.raised /\ UNCHANGED gen_article
           ELSE IF "title" \notin DOMAIN e.value
           THEN gen_pc' = "raised" /\ gen_error' = "KeyError" /\ UNCHANGED gen_article
           ELSE gen_pc' = "returned" /\ gen_article' = e.value /\ UNCHANGED gen_error
    /\ UNCHANGED <<gen_min, gen_attempt, gen_trace, gen_waits, gen_content, gen_how>>
    /\ UNCHANGED <<quotaVars, pubVars, appVars, obsVars>>

\* no generate_article call is part of the behaviour
InitGenIdle ==
    /\ gen_pc = "unused"
    /\ gen_min = 0
    /\ gen_attempt = 0
    /\ gen_trace = << >>
    /\ gen_waits = << >>
    /\ gen_content = << >>
    /\ gen_how = "none"
    /\ gen_article = NoArticle
    /\ gen_error = "none"

\* a generator constructed with some min_characters setting
InitGenerate ==
    /\ gen_pc = "idle"
    /\ gen_min \in 0..MaxMin
    /\ gen_attempt = 0
    /\ gen_trace = << >>
    /\ gen_waits = << >>
    /\ gen_content = << >>
    /\ gen_how = "none"
    /\ gen_article = NoArticle
    /\ gen_error = "none"

NextGenerate ==
    \/ GenCall
    \/ \E msg \in ErrorMessages : GenBackendRaises(msg)
    \/ \E content \in Responses : GenBackendStreams(content)
    \/ GenParse
    \/ \E title \in Titles \cup {AbsentTitle}, content \in Contents \cup {AbsentContent} :
          GenLoaded(title, content)
    \/ GenEnsure

\* no use_quota call is part of the behaviour
InitQuotaIdle ==
    /\ clock = RetentionDays
    /\ usage_log = Saved(EmptyDict)
    /\ consumed = [d \in Days |-> 0]
    /\ uq_pc = [w \in Workers |-> "unused"]
    /\ uq_ip = [w \in Workers |-> NoIp]
    /\ uq_today = [w \in Workers |-> 0]
    /\ uq_log = [w \in Workers |-> EmptyDict]
    /\ uq_ret = [w \in Workers |-> "none"]
    /\ uq_info = [w \in Workers |-> NoInfo]
    /\ uq_before = [w \in Workers |-> Saved(EmptyDict)]
    /\ uq_calls = 0

\* calls one at a time: a call starts only when no other call is running
NextQuotaSerial ==
    \/ \E w \in Workers, c \in ClientIps :
          /\ \A v \in Workers : uq_pc[v] = "idle"
          /\ UqCall(w, c)
    \/ \E w \in Workers : UqStep(w)
    \/ Midnight

\* calls of concurrent request threads
NextQuotaConcurrent ==
    \/ \E w \in Workers, c \in ClientIps : UqCall(w, c)
    \/ \E w \in Workers : UqStep(w)
    \/ Midnight

(***************************************************************************)
(* core/wordpress_poster.py                                                *)
(***************************************************************************)

\* post_article and direct _login calls made on one poster
MaxPubCalls == 2

\* a response URL is at most MaxUrl segments long
MaxUrl == 2

\* a site address, piece by piece: the host, a slash, the path /wp-admin
SiteUrls == {<< >>, <<"https://site">>, <<"https://site", "/">>,
             <<"https://site", "/wp-admin">>, <<"/">>}

RECURSIVE RStripSlash(_)

\* str.rstrip('/')
RStripSlash(u) ==
    IF Len(u) > 0 /\ u[Len(u)] = "/" THEN RStripSlash(SubSeq(u, 1, Len(u) - 1)) ELSE u

RECURSIVE RemoveAll(_, _)

\* str.replace(piece, '')
RemoveAll(u, piece) ==
    IF u = << >> THEN << >>
    ELSE IF Head(u) = piece THEN RemoveAll(Tail(u), piece)
    ELSE <<Head(u)>> \o RemoveAll(Tail(u), piece)

\* __init__ lines 18-22: self.site_url
NormalizedSiteUrl(site_url) ==
    LET u == RStripSlash(site_url)
    IN  IF Len(u) > 0 /\ u[Len(u)] = "/wp-admin" THEN RemoveAll(u, "/wp-admin") ELSE u

\* the wordpress_settings a poster may be constructed with
PubSettings == [site_url : SiteUrls, username : {"", "user"}, password : {"", "secret"}]

\* a validation that does not look at the password
validate_settings_no_password(settings) ==
    /\ NormalizedSiteUrl(settings.site_url) # << >>
    /\ settings.username # ""

\* _validate_settings: bool(self.site_url and self.username and self.password)
validate_settings(settings) ==
    /\ NormalizedSiteUrl(settings.site_url) # << >>
    /\ settings.username # ""
    /\ settings.password # ""

\* the pieces a response URL is made of
UrlSegments == {"wp-admin/", "wp-login.php", "post.php", "edit.php", "index.php",
                "message=6", "message=1", "message=10"}

Urls == UNION {[1..n -> UrlSegments] : n \in 1..MaxUrl}

\* needle in segment, for the needles the poster looks for
SegmentHas(segment, needle) ==
    \/ needle = "wp-admin" /\ segment = "wp-admin/"
    \/ needle = "login" /\ segment = "wp-login.php"
    \/ needle = "post.php" /\ segment = "post.php"
    \/ needle = "edit.php" /\ segment = "edit.php"
    \/ needle = "message=6" /\ segment = "message=6"
    \/ needle = "message=1" /\ segment \in {"message=1", "message=10"}

\* needle in response.url
UrlHas(url, needle) == \E i \in 1..Len(url) : SegmentHas(url[i], needle)

\* a login test that only looks for wp-admin
login_succeeded_lax(url) == UrlHas(url, "wp-admin")

\* _login line 112: 'wp-admin' in response.url and 'login' not in response.url
login_succeeded(url) == UrlHas(url, "wp-admin") /\ ~UrlHas(url, "login")

\* a test of the final URL that ignores the message code
post_succeeded_any_message(url) == UrlHas(url, "post.php") \/ UrlHas(url, "edit.php")

\* _post_article lines 193-198
post_succeeded(url) ==
    \/ UrlHas(url, "post.php") /\ (UrlHas(url, "message=6") \/ UrlHas(url, "message=1"))
    \/ UrlHas(url, "edit.php")

\* the hidden inputs with a name and a value that an editor form may hold
HiddenNames == {"_wpnonce", "user_ID", "post_ID", "_wp_http_referer"}

\* a required list without the entry identifier
required_fields_without_post_id == {"_wpnonce", "user_ID"}

\* required_fields, line 155
required_fields == {"_wpnonce", "user_ID", "post_ID"}

\* the article_data dicts handed to post_article
PubArticles == {ArticleDict(t, c) : t \in {"T", AbsentTitle}, c \in {<<"c">>, AbsentContent}}

GetLogin == "GET wp-login.php"

PostLogin == "POST wp-login.php"

GetEditor == "GET post-new.php"

PostEntry == "POST post.php"

\* what the steps of a call may raise: a transport error or timeout of
\* requests, the HTTPError of raise_for_status, the AttributeError of
\* self.session.get on None, the KeyError of a missing article field
Exceptions == {"ConnectionError", "HTTPError", "AttributeError", "KeyError"}

\* handlers that name the exceptions of requests only
catches_requests_only(frame, exc) ==
    /\ frame \in {"_login", "_post_article", "_post_via_browser_automation"}
    /\ exc \in {"ConnectionError", "HTTPError"}

\* the frame has a handler for the exception: _login, _post_article and
\* _post_via_browser_automation wrap their bodies in try / except Exception,
\* post_article has no try
catches(frame, exc) ==
    frame \in {"_login", "_post_article", "_post_via_browser_automation"}

\* the frames an exception raised in _login passes, innermost first
LoginStack(entry) ==
    IF entry = "post_article"
    THEN <<"_login", "_post_via_browser_automation", "post_article">>
    ELSE <<"_login">>

\* the frames an exception raised in _post_article passes
EditorStack == <<"_post_article", "_post_via_browser_automation", "post_article">>

\* the first frame of the stack that catches the exception, "none" if none
CatchingFrame(stack, exc) ==
    LET hits == {i \in 1..Len(stack) : catches(stack[i], exc)}
    IN  IF hits = {} THEN "none" ELSE stack[SetMin(hits)]

\* the exception a failed request raises
ExceptionOf(response) == IF response = "http_error" THEN "HTTPError" ELSE "ConnectionError"

\* a call on the poster begins
PubBegin(entry, article) ==
    /\ pub_pc = "ready"
    /\ pub_calls < MaxPubCalls
    /\ pub_calls' = pub_calls + 1
    /\ pub_entry' = entry
    /\ pub_article' = article
    /\ pub_requests' = << >>
    /\ pub_url' = << >>
    /\ pub_hidden' = {}
    /\ pub_login' = "none"

\* post_article lines 34-56: False when the settings are incomplete, else a
\* new session and on to _login
PubPostArticle(article) ==
    /\ PubBegin("post_article", article)
    /\ IF validate_settings(pub_settings)
       THEN /\ pub_session' = "Session"
            /\ pub_pc' = "login_get"
            /\ pub_ret' = "running"
       ELSE /\ pub_ret' = "False"
            /\ UNCHANGED <<pub_session, pub_pc>>
    /\ UNCHANGED <<pub_settings, pub_login_ret>>
    /\ UNCHANGED <<quotaVars, genVars, appVars, obsVars>>

\* _login called on the poster from outside (debug_wordpress_test, the test
\* script): with self.session None, self.session.get raises AttributeError,
\* which the except clause turns into False
PubLoginDirect ==
    /\ PubBegin("_login", NoArticle)
    /\ IF pub_session = "None"
       THEN /\ pub_login_ret' = (IF CatchingFrame(LoginStack("_login"), "AttributeError") = "none"
                                 THEN "raised" ELSE "False")
            /\ UNCHANGED pub_pc
       ELSE /\ pub_login_ret' = "running"
            /\ pub_pc' = "login_get"
    /\ UNCHANGED <<pub_settings, pub_session, pub_ret>>
    /\ UNCHANGED <<quotaVars, genVars, appVars, obsVars>>

\* _login returns result: to post_article (lines 59-66), which returns False
\* or sleeps and goes on to _post_article, or to the outside caller
LoginReturns(result) ==
    IF pub_entry = "post_article"
    THEN /\ pub_login' = (IF result THEN "True" ELSE "False")
         /\ pub_pc' = (IF result THEN "editor_get" ELSE "ready")
         /\ pub_ret' = (IF result THEN pub_ret ELSE "False")
         /\ UNCHANGED pub_login_ret
    ELSE /\ pub_login_ret' = (IF result THEN "True" ELSE "False")
         /\ pub_pc' = "ready"
         /\ UNCHANGED <<pub_login, pub_ret>>

\* an exception is raised in the running call: the handler of _login or
\* _post_article makes that function return False, the handler of
\* _post_via_browser_automation makes post_article return False, and an
\* exception no frame catches leaves the call
Throws(stack, exc) ==
    LET frame == CatchingFrame(stack, exc)
    IN  IF frame = "_login"
        THEN LoginReturns(FALSE)
        ELSE /\ pub_pc' = "ready"
             /\ IF pub_entry = "post_article"
                THEN /\ pub_ret' = (IF frame = "none" THEN "raised" ELSE "False")
                     /\ UNCHANGED <<pub_login, pub_login_ret>>
                ELSE /\ pub_login_ret' = "raised"
                     /\ UNCHANGED <<pub_login, pub_ret>>

\* _login lines 76-88: the login page is fetched and its form looked up
PubLoginGet(response) ==
    /\ pub_pc = "login_get"
    /\ pub_requests' = Append(pub_requests, GetLogin)
    /\ IF response = "form"
       THEN /\ pub_pc' = "login_post"
            /\ UNCHANGED <<pub_login, pub_ret, pub_login_ret>>
       ELSE IF response = "no_form"
       THEN LoginReturns(FALSE)
       ELSE Throws(LoginStack(pub_entry), ExceptionOf(response))
    /\ UNCHANGED <<pub_settings, pub_article, pub_session, pub_entry, pub_url, pub_hidden, pub_calls>>
    /\ UNCHANGED <<quotaVars, genVars, appVars, obsVars>>

\* _login lines 96-124: the credentials are posted; the final URL decides
PubLoginPost(response, url) ==
    /\ pub_pc = "login_post"
    /\ pub_requests' = Append(pub_requests, PostLogin)
    /\ IF response = "ok"
       THEN /\ pub_url' = url
            /\ LoginReturns(login_succeeded(url))
       ELSE /\ pub_url' = << >>
            /\ Throws(LoginStack(pub_entry), ExceptionOf(response))
    /\ UNCHANGED <<pub_settings, pub_article, pub_session, pub_entry, pub_hidden, pub_calls>>
    /\ UNCHANGED <<quotaVars, genVars, appVars, obsVars>>

\* _post_article lines 129-183: the editor page is fetched, the hidden fields
\* of its first form harvested and the required ones looked up; post_data
\* reads article_data['title'] and article_data['content']
PubEditorGet(response, hidden) ==
    /\ pub_pc = "editor_get"
    /\ pub_requests' = Append(pub_requests, GetEditor)
    /\ pub_url' = << >>
    /\ IF response = "page"
       THEN /\ pub_hidden' = hidden
            /\ IF ~(required_fields \subseteq hidden)
               THEN pub_pc' = "ready" /\ pub_ret' = "False"
               ELSE IF {"title", "content"} \subseteq DOMAIN pub_article
               THEN pub_pc' = "submit" /\ UNCHANGED pub_ret
               ELSE Throws(EditorStack, "KeyError")
       ELSE IF response = "no_form"
       THEN /\ pub_hidden' = {}
            /\ pub_pc' = "ready"
            /\ pub_ret' = "False"
       ELSE /\ pub_hidden' = {}
            /\ Throws(EditorStack, ExceptionOf(response))
    /\ UNCHANGED <<pub_settings, pub_article, pub_session, pub_entry, pub_login, pub_login_ret, pub_calls>>
    /\ UNCHANGED <<quotaVars, genVars, appVars, obsVars>>

\* _post_article lines 185-212: the entry is posted; the final URL decides
PubSubmit(response, url) ==
    /\ pub_pc = "submit"
    /\ pub_requests' = Append(pub_requests, PostEntry)
    /\ IF response = "ok"
       THEN /\ pub_url' = url
            /\ pub_pc' = "ready"
            /\ pub_ret' = (IF post_succeeded(url) THEN "True" ELSE "False")
       ELSE /\ pub_url' = << >>
            /\ Throws(EditorStack, ExceptionOf(response))
    /\ UNCHANGED <<pub_settings, pub_article, pub_session, pub_entry, pub_login, pub_hidden,
                   pub_login_ret, pub_calls>>
    /\ UNCHANGED <<quotaVars, genVars, appVars, obsVars>>

\* a poster just constructed: self.session = None
InitPublish ==
    /\ pub_settings \in PubSettings
    /\ pub_article = NoArticle
    /\ pub_session = "None"
    /\ pub_pc = "ready"
    /\ pub_entry = "none"
    /\ pub_login = "none"
    /\ pub_requests = << >>
    /\ pub_url = << >>
    /\ pub_hidden = {}
    /\ pub_ret = "none"
    /\ pub_login_ret = "none"
    /\ pub_calls = 0

\* no poster is part of the behaviour
InitPubIdle ==
    /\ pub_settings = [site_url |-> << >>, username |-> "", password |-> ""]
    /\ pub_article = NoArticle
    /\ pub_session = "None"
    /\ pub_pc = "unused"
    /\ pub_entry = "none"
    /\ pub_login = "none"
    /\ pub_requests = << >>
    /\ pub_url = << >>
    /\ pub_hidden = {}
    /\ pub_ret = "none"
    /\ pub_login_ret = "none"
    /\ pub_calls = 0

\* a GET raises (transport, timeout), raise_for_status raises, the page has
\* no form, or it has one
GetResponses == {"raises", "http_error", "no_form"}

\* a POST raises, raise_for_status raises, or the response arrives
PostResponses == {"raises", "http_error", "ok"}

NextPublish ==
    \/ \E article \in PubArticles : PubPostArticle(article)
    \/ PubLoginDirect
    \/ \E response \in GetResponses \cup {"form"} : PubLoginGet(response)
    \/ \E response \in PostResponses, url \in Urls : PubLoginPost(response, url)
    \/ \E response \in GetResponses \cup {"page"}, hidden \in SUBSET HiddenNames :
          PubEditorGet(response, hidden)
    \/ \E response \in PostResponses, url \in Urls : PubSubmit(response, url)

(***************************************************************************)
(* app.py: api_process and process_podcast_background                      *)
(***************************************************************************)

\* jobs submitted in one behaviour; a job's number is its task_id
NumJobs == 2

Jobs == 1..NumJobs

\* total_steps, the 4 of every update_status call and of api_process line 84
total_steps == 4

\* d.update(other)
DictUpdate(d, other) ==
    [k \in DOMAIN d \cup DOMAIN other |-> IF k \in DOMAIN other THEN other[k] ELSE d[k]]

\* DEFAULT_SETTINGS["wordpress"], settings.py lines 33-40: the three keys the
\* worker and the poster test
DefaultWordpress == [site_url |-> "", username |-> "", password |-> ""]

\* the WORDPRESS_ lines of .env (and the wordpress keys of user_settings.json,
\* which load_settings applies the same way): none, or all three
EnvFiles == {EmptyDict, [site_url |-> "env", username |-> "env", password |-> "env"]}

\* the "settings" of a request body, by kind
OverrideKinds == {"none", "creds", "null_site", "list_site", "not_dict"}

\* the value of user_settings["wordpress"] for the kinds where it is a dict:
\* "None" is JSON null and "list" a JSON array
OverrideWordpress(kind) ==
    CASE kind = "creds"     -> [site_url |-> "a", username |-> "a", password |-> "a"]
      [] kind = "null_site" -> [site_url |-> "None"]
      [] kind = "list_site" -> [site_url |-> "list", username |-> "a", password |-> "a"]
      [] OTHER              -> EmptyDict

\* load_settings lines 50-76: DEFAULT_SETTINGS.copy() is shallow, so the
\* assignments into settings['wordpress'] write the one default dict
load_settings(wordpress, env) == DictUpdate(wordpress, env)

\* lines 243-248: merged_settings[key].update(value) on the same dict;
\* update raises when value is not a mapping
merge_raises(kind) == kind = "not_dict"

merged_wordpress(wordpress, kind) == DictUpdate(wordpress, OverrideWordpress(kind))

\* bool(x) of a settings value
Truthy(x) == x \notin {"", "None"}

\* line 311: all three settings are truthy
wordpress_configured(wp_settings) ==
    Truthy(wp_settings.site_url) /\ Truthy(wp_settings.username) /\ Truthy(wp_settings.password)

\* use_quota run in one piece by a request: [success, message, file]; save
\* says how save_usage_log goes
use_quota(file, today_key, client_ip, save) ==
    LET loaded     == IF file.valid THEN file.data ELSE EmptyDict
        usage_info == get_usage_info(loaded, today_key)
        log_data   == cleanup_old_logs(RecordUse(loaded, today_key, client_ip), today_key)
    IN  IF ~usage_info.can_use
        THEN [success |-> FALSE, message |-> RetLimit, file |-> file]
        ELSE IF save = "ok"
        THEN [success |-> TRUE, message |-> RetOk, file |-> Saved(log_data)]
        ELSE IF save = "open_fails"
        THEN [success |-> FALSE, message |-> RetSaveFailed, file |-> file]
        ELSE [success |-> FALSE, message |-> RetSaveFailed, file |-> Unparsable]

SaveOutcomes == {"ok", "open_fails", "write_fails"}

\* request bodies: no JSON body, or a file_url that is empty, not http, http
FileUrls == {"no_body", "", "ftp", "http"}

\* a task record created one step further on (variant)
NewTask_second_step ==
    [current_step |-> 2,
     total_steps  |-> total_steps,
     step_name    |-> "processing started",
     status       |-> "started",
     error        |-> "None",
     timestamp    |-> "None",
     logs         |-> << >>,
     result       |-> << >>]

\* the task record of api_process lines 82-90; result is << >> while the key
\* is absent and <<article_data>> once it is set
NewTask ==
    [current_step |-> 1,
     total_steps  |-> total_steps,
     step_name    |-> "processing started",
     status       |-> "started",
     error        |-> "None",
     timestamp    |-> "None",
     logs         |-> << >>,
     result       |-> << >>]

\* no record under this task_id
NoTask == [NewTask EXCEPT !.current_step = 0, !.total_steps = 0, !.step_name = "no task",
                          !.status = "no task"]

NoResponse == [code |-> 0, message |-> "none", daily_limit |-> << >>, next_reset |-> << >>]

Response(code, message) == [NoResponse EXCEPT !.code = code, !.message = message]

\* update_status recording the step after the one it is given (off-by-one variant)
update_status_next_step(step, step_name, status_msg, error) ==
    << [kind |-> "fields", step |-> step + 1, step_name |-> step_name, status |-> status_msg,
        error |-> error, article |-> << >>],
       [kind |-> "log", step |-> step + 1, step_name |-> step_name, status |-> status_msg,
        error |-> error, article |-> << >>] >>

\* the registry writes of update_status(step, total, step_name, status_msg, error):
\* the dict.update of lines 258-265, then the logs.append of lines 267-271
update_status(step, step_name, status_msg, error) ==
    << [kind |-> "fields", step |-> step, step_name |-> step_name, status |-> status_msg,
        error |-> error, article |-> << >>],
       [kind |-> "log", step |-> step, step_name |-> step_name, status |-> status_msg,
        error |-> error, article |-> << >>] >>

\* an except clause that records the error fields and appends no log entry
handler_writes_no_log(article, error_msg) ==
    << [kind |-> "error_fields", step |-> 0, step_name |-> "",
        status |-> "error during processing", error |-> error_msg, article |-> << >>] >>

\* an except clause that appends the ERROR entry and leaves the fields (variant)
handler_writes_log_only(article, error_msg) ==
    (IF article # << >>
     THEN << [kind |-> "result", step |-> 0, step_name |-> "", status |-> "",
              error |-> "None", article |-> article] >>
     ELSE << >>)
    \o << [kind |-> "error_log", step |-> 0, step_name |-> "", status |-> "",
           error |-> error_msg, article |-> << >>] >>

\* the registry writes of the except clause, lines 346-360
handler_writes(article, error_msg) ==
    (IF article # << >>
     THEN << [kind |-> "result", step |-> 0, step_name |-> "", status |-> "",
              error |-> "None", article |-> article] >>
     ELSE << >>)
    \o << [kind |-> "error_fields", step |-> 0, step_name |-> "",
           status |-> "error during processing", error |-> error_msg, article |-> << >>],
          [kind |-> "error_log", step |-> 0, step_name |-> "", status |-> "",
           error |-> error_msg, article |-> << >>] >>

\* registry writes in which a log write replaces the log by its entry (variant)
ApplyWrite_fresh_log(task, write) ==
    CASE write.kind = "fields" ->
            [task EXCEPT !.current_step = write.step,
                         !.total_steps = total_steps,
                         !.step_name = write.step_name,
                         !.status = write.status,
                         !.error = write.error,
                         !.timestamp = "HH:MM:SS"]
      [] write.kind = "log" ->
            [task EXCEPT !.logs =
                << [level   |-> IF write.error # "None" THEN "ERROR" ELSE "INFO",
                    message |-> IF write.error # "None" THEN write.error ELSE write.status] >>]
      [] write.kind = "result" ->
            [task EXCEPT !.result = write.article]
      [] write.kind = "error_fields" ->
            [task EXCEPT !.error = write.error, !.status = write.status]
      [] write.kind = "error_log" ->
            [task EXCEPT !.logs = Append(@, [level |-> "ERROR", message |-> write.error])]

\* one registry write applied to a task record
ApplyWrite(task, write) ==
    CASE write.kind = "fields" ->
            [task EXCEPT !.current_step = write.step,
                         !.total_steps = total_steps,
                         !.step_name = write.step_name,
                         !.status = write.status,
                         !.error = write.error,
                         !.timestamp = "HH:MM:SS"]
      [] write.kind = "log" ->
            [task EXCEPT !.logs = Append(@,
                [level   |-> IF write.error # "None" THEN "ERROR" ELSE "INFO",
                 message |-> IF write.error # "None" THEN write.error ELSE write.status])]
      [] write.kind = "result" ->
            [task EXCEPT !.result = write.article]
      [] write.kind = "error_fields" ->
            [task EXCEPT !.error = write.error, !.status = write.status]
      [] write.kind = "error_log" ->
            [task EXCEPT !.logs = Append(@, [level |-> "ERROR", message |-> write.error])]

\* lines 289-304: the generation stage reports, the article is stored under
\* 'result', the publishing stage is announced; here with the store last
generated_writes_late(article) ==
    update_status(3, "article generation", "article generated", "None")
    \o update_status(4, "WordPress post", "posting", "None")
    \o << [kind |-> "result", step |-> 0, step_name |-> "", status |-> "",
           error |-> "None", article |-> article] >>

\* lines 289-304: the generation stage reports, the article is stored under
\* 'result', the publishing stage is announced
generated_writes(article) ==
    update_status(3, "article generation", "article generated", "None")
    \o << [kind |-> "result", step |-> 0, step_name |-> "", status |-> "",
           error |-> "None", article |-> article] >>
    \o update_status(4, "WordPress post", "posting", "None")

\* the articles generate_article may hand to the worker
JobArticles == {ArticleDict(t, c) : t \in Titles, c \in {<<"c">>, AbsentContent}}

\* api_process lines 45-63: the usage check and the checks of the body
ApiCheck(j, file_url, kind, client_ip) ==
    /\ job_pc[j] = "new"
    /\ LET usage_info == get_usage_info(load_usage_log, get_today_key)
       IN  IF ~usage_info.can_use
           THEN /\ job_pc' = [job_pc EXCEPT ![j] = "rejected"]
                /\ job_response' = [job_response EXCEPT ![j] =
                       [code |-> 429, message |-> "daily limit reached",
                        daily_limit |-> <<usage_info.daily_limit>>,
                        next_reset |-> <<usage_info.next_reset>>]]
                /\ UNCHANGED <<job_settings, job_ip>>
           ELSE IF file_url = "no_body"
           THEN /\ job_pc' = [job_pc EXCEPT ![j] = "rejected"]
                /\ job_response' = [job_response EXCEPT ![j] = Response(500, "server error")]
                /\ UNCHANGED <<job_settings, job_ip>>
           ELSE IF file_url = ""
           THEN /\ job_pc' = [job_pc EXCEPT ![j] = "rejected"]
                /\ job_response' = [job_response EXCEPT ![j] = Response(400, "file URL missing")]
                /\ UNCHANGED <<job_settings, job_ip>>
           ELSE IF file_url # "http"
           THEN /\ job_pc' = [job_pc EXCEPT ![j] = "rejected"]
                /\ job_response' = [job_response EXCEPT ![j] = Response(400, "URL not valid")]
                /\ UNCHANGED <<job_settings, job_ip>>
           ELSE /\ job_pc' = [job_pc EXCEPT ![j] = "checked"]
                /\ job_settings' = [job_settings EXCEPT ![j] = kind]
                /\ job_ip' = [job_ip EXCEPT ![j] = client_ip]
                /\ UNCHANGED job_response
    /\ UNCHANGED <<default_wordpress, env_file, processing_status, job_ops, job_article,
                   job_stages, job_failed>>
    /\ UNCHANGED <<quotaVars, genVars, pubVars, obsVars>>

\* a submission that puts no record into the registry (variant)
registry_without(registry, task_id) == registry

\* api_process lines 79-90: the record is stored under the new task_id
registry_with(registry, task_id) == [registry EXCEPT ![task_id] = NewTask]

\* api_process lines 65-90: use_quota, then the task record is created
ApiUseQuota(j, save) ==
    /\ job_pc[j] = "checked"
    /\ LET used == use_quota(usage_log, get_today_key, job_ip[j], save)
       IN  /\ usage_log' = used.file
           /\ IF used.success
              THEN /\ consumed' = [consumed EXCEPT ![get_today_key] = @ + 1]
                   /\ processing_status' = registry_with(processing_status, j)
                   /\ job_pc' = [job_pc EXCEPT ![j] = "created"]
                   /\ UNCHANGED job_response
              ELSE /\ job_pc' = [job_pc EXCEPT ![j] = "rejected"]
                   /\ job_response' = [job_response EXCEPT ![j] = Response(429, used.message)]
                   /\ UNCHANGED <<consumed, processing_status>>
    /\ UNCHANGED <<default_wordpress, env_file, job_settings, job_ip, job_ops, job_article,
                   job_stages, job_failed>>
    /\ UNCHANGED <<clock, uq_pc, uq_ip, uq_today, uq_log, uq_ret, uq_info, uq_before, uq_calls>>
    /\ UNCHANGED <<genVars, pubVars, obsVars>>

\* api_process lines 92-103: the worker thread is started and the task_id
\* returned; the request does not join the thread
ApiStartWorker(j) ==
    /\ job_pc[j] = "created"
    /\ job_pc' = [job_pc EXCEPT ![j] = "start"]
    /\ job_response' = [job_response EXCEPT ![j] = Response(200, "started")]
    /\ UNCHANGED <<default_wordpress, env_file, processing_status, job_settings, job_ip, job_ops,
                   job_article, job_stages, job_failed>>
    /\ UNCHANGED <<quotaVars, genVars, pubVars, obsVars>>

\* an exception reaches the except clause of process_podcast_background while
\* the worker is in the named stage
JobRaises(j, stage) ==
    /\ job_failed' = [job_failed EXCEPT ![j] = stage]
    /\ job_ops' = [job_ops EXCEPT ![j] = handler_writes(job_article'[j], stage)]
    /\ job_pc' = [job_pc EXCEPT ![j] = "finish"]

\* the worker's next registry write is made
RegistryWrite(j) ==
    /\ job_ops[j] # << >>
    /\ processing_status' = [processing_status EXCEPT ![j] = ApplyWrite(@, Head(job_ops[j]))]
    /\ job_ops' = [job_ops EXCEPT ![j] = Tail(@)]
    /\ job_stages' = [job_stages EXCEPT ![j] =
           IF /\ Head(job_ops[j]).kind = "fields"
              /\ \A i \in 1..Len(@) : @[i] # Head(job_ops[j]).step
           THEN Append(@, Head(job_ops[j]).step)
           ELSE @]
    /\ job_updates' = [job_updates EXCEPT ![j] =
           IF Head(job_ops[j]).kind \in {"fields", "error_fields"} THEN @ + 1 ELSE @]
    /\ UNCHANGED <<default_wordpress, env_file, job_pc, job_response, job_settings, job_ip,
                   job_article, job_failed>>
    /\ UNCHANGED <<job_wp, poll_view>>
    /\ UNCHANGED <<quotaVars, genVars, pubVars>>

\* lines 240-248 and 276: load_settings, the merge of user_settings, and the
\* first update_status
JobLoadSettings(j) ==
    /\ job_pc[j] = "start"
    /\ job_article' = job_article
    /\ IF merge_raises(job_settings[j])
       THEN /\ default_wordpress' = load_settings(default_wordpress, env_file)
            /\ JobRaises(j, "merge")
       ELSE /\ default_wordpress' = merged_wordpress(load_settings(default_wordpress, env_file),
                                                      job_settings[j])
            /\ job_ops' = [job_ops EXCEPT ![j] =
                   update_status(1, "audio download", "downloading", "None")]
            /\ job_pc' = [job_pc EXCEPT ![j] = "download"]
            /\ UNCHANGED job_failed
    /\ UNCHANGED <<env_file, processing_status, job_response, job_settings, job_ip, job_stages>>
    /\ UNCHANGED <<quotaVars, genVars, pubVars, obsVars>>

\* lines 277-282: download_audio returns or raises
JobDownload(j, ok) ==
    /\ job_pc[j] = "download"
    /\ job_ops[j] = << >>
    /\ job_article' = job_article
    /\ IF ok
       THEN /\ job_ops' = [job_ops EXCEPT ![j] =
                   update_status(1, "audio download", "downloaded", "None")
                   \o update_status(2, "transcription", "transcribing", "None")]
            /\ job_pc' = [job_pc EXCEPT ![j] = "transcribe"]
            /\ UNCHANGED job_failed
       ELSE JobRaises(j, "acquisition")
    /\ UNCHANGED <<default_wordpress, env_file, processing_status, job_response, job_settings,
                   job_ip, job_stages>>
    /\ UNCHANGED <<quotaVars, genVars, pubVars, obsVars>>

\* lines 283-287: transcribe_audio returns or raises
JobTranscribe(j, ok) ==
    /\ job_pc[j] = "transcribe"
    /\ job_ops[j] = << >>
    /\ job_article' = job_article
    /\ IF ok
       THEN /\ job_ops' = [job_ops EXCEPT ![j] =
                   update_status(2, "transcription", "transcribed", "None")
                   \o update_status(3, "article generation", "generating", "None")]
            /\ job_pc' = [job_pc EXCEPT ![j] = "generate"]
            /\ UNCHANGED job_failed
       ELSE JobRaises(j, "transcription")
    /\ UNCHANGED <<default_wordpress, env_file, processing_status, job_response, job_settings,
                   job_ip, job_stages>>
    /\ UNCHANGED <<quotaVars, genVars, pubVars, obsVars>>

\* lines 288-304: generate_article raises, or returns article_data
JobGenerate(j, ok, article) ==
    /\ job_pc[j] = "generate"
    /\ job_ops[j] = << >>
    /\ IF ok
       THEN /\ job_article' = [job_article EXCEPT ![j] = <<article>>]
            /\ job_ops' = [job_ops EXCEPT ![j] = generated_writes(<<article>>)]
            /\ job_pc' = [job_pc EXCEPT ![j] = "wordpress"]
            /\ UNCHANGED job_failed
       ELSE /\ job_article' = job_article
            /\ JobRaises(j, "generation")
    /\ UNCHANGED <<default_wordpress, env_file, processing_status, job_response, job_settings,
                   job_ip, job_stages>>
    /\ UNCHANGED <<quotaVars, genVars, pubVars, obsVars>>

\* lines 307-311 and 334-337: wp_settings is the merged wordpress dict;
\* line 309 slices wp_settings.get('site_url', 'None'), which raises when the
\* value is None; incomplete settings skip the post
JobReadWordpress(j) ==
    /\ job_pc[j] = "wordpress"
    /\ job_ops[j] = << >>
    /\ job_article' = job_article
    /\ job_wp' = [job_wp EXCEPT ![j] = <<default_wordpress>>]
    /\ UNCHANGED <<poll_view, job_updates>>
    /\ IF default_wordpress.site_url = "None"
       THEN JobRaises(j, "publishing settings")
       ELSE IF wordpress_configured(default_wordpress)
       THEN /\ job_pc' = [job_pc EXCEPT ![j] = "post"]
            /\ UNCHANGED <<job_ops, job_failed>>
       ELSE /\ job_ops' = [job_ops EXCEPT ![j] =
                   update_status(4, "complete", "generated, post skipped", "None")]
            /\ job_pc' = [job_pc EXCEPT ![j] = "finish"]
            /\ UNCHANGED job_failed
    /\ UNCHANGED <<default_wordpress, env_file, processing_status, job_response, job_settings,
                   job_ip, job_stages>>
    /\ UNCHANGED <<quotaVars, genVars, pubVars>>

\* lines 312-333: the poster is constructed (site_url.rstrip raises on a
\* value that is no string) and post_article returns wp_success; a False and
\* an exception are reported by update_status without an error argument
JobPost(j, wp_success) ==
    /\ job_pc[j] = "post"
    /\ job_ops[j] = << >>
    /\ job_pc' = [job_pc EXCEPT ![j] = "finish"]
    /\ IF default_wordpress.site_url = "list"
       THEN /\ job_ops' = [job_ops EXCEPT ![j] =
                   update_status(4, "complete", "generated, WordPress post error", "None")]
            /\ job_failed' = [job_failed EXCEPT ![j] = "publishing"]
       ELSE IF wp_success
       THEN /\ job_ops' = [job_ops EXCEPT ![j] =
                   update_status(4, "complete", "all done, WordPress post succeeded", "None")]
            /\ UNCHANGED job_failed
       ELSE /\ job_ops' = [job_ops EXCEPT ![j] =
                   update_status(4, "complete", "generated, WordPress post failed", "None")]
            /\ job_failed' = [job_failed EXCEPT ![j] = "publishing"]
    /\ UNCHANGED <<default_wordpress, env_file, processing_status, job_response, job_settings,
                   job_ip, job_article, job_stages>>
    /\ UNCHANGED <<quotaVars, genVars, pubVars, obsVars>>

\* the server has started: no request yet
InitApp ==
    /\ default_wordpress = DefaultWordpress
    /\ env_file \in EnvFiles
    /\ processing_status = [j \in Jobs |-> NoTask]
    /\ job_pc = [j \in Jobs |-> "new"]
    /\ job_response = [j \in Jobs |-> NoResponse]
    /\ job_settings = [j \in Jobs |-> "none"]
    /\ job_ip = [j \in Jobs |-> NoIp]
    /\ job_ops = [j \in Jobs |-> << >>]
    /\ job_article = [j \in Jobs |-> << >>]
    /\ job_stages = [j \in Jobs |-> << >>]
    /\ job_failed = [j \in Jobs |-> "none"]

\* no request is part of the behaviour
InitAppIdle ==
    /\ default_wordpress = DefaultWordpress
    /\ env_file = EmptyDict
    /\ processing_status = [j \in Jobs |-> NoTask]
    /\ job_pc = [j \in Jobs |-> "unused"]
    /\ job_response = [j \in Jobs |-> NoResponse]
    /\ job_settings = [j \in Jobs |-> "none"]
    /\ job_ip = [j \in Jobs |-> NoIp]
    /\ job_ops = [j \in Jobs |-> << >>]
    /\ job_article = [j \in Jobs |-> << >>]
    /\ job_stages = [j \in Jobs |-> << >>]
    /\ job_failed = [j \in Jobs |-> "none"]

\* the ledger when the server starts: today has had n uses
InitLedger ==
    /\ clock = RetentionDays
    /\ \E n \in {0, daily_limit - 1, daily_limit} :
          /\ usage_log = Saved(LogWith(EmptyDict, RetentionDays, n))
          /\ consumed = [d \in Days |-> IF d = RetentionDays THEN n ELSE 0]
    /\ uq_pc = [w \in Workers |-> "unused"]
    /\ uq_ip = [w \in Workers |-> NoIp]
    /\ uq_today = [w \in Workers |-> 0]
    /\ uq_log = [w \in Workers |-> EmptyDict]
    /\ uq_ret = [w \in Workers |-> "none"]
    /\ uq_info = [w \in Workers |-> NoInfo]
    /\ uq_before = [w \in Workers |-> Saved(EmptyDict)]
    /\ uq_calls = 0

Next ==
    \/ \E j \in Jobs, file_url \in FileUrls, kind \in OverrideKinds, client_ip \in {"ip1", NoIp} :
          ApiCheck(j, file_url, kind, client_ip)
    \/ \E j \in Jobs, save \in SaveOutcomes : ApiUseQuota(j, save)
    \/ \E j \in Jobs : ApiStartWorker(j)
    \/ \E j \in Jobs : RegistryWrite(j)
    \/ \E j \in Jobs : JobLoadSettings(j)
    \/ \E j \in Jobs, ok \in BOOLEAN : JobDownload(j, ok)
    \/ \E j \in Jobs, ok \in BOOLEAN : JobTranscribe(j, ok)
    \/ \E j \in Jobs, ok \in BOOLEAN, article \in JobArticles : JobGenerate(j, ok, article)
    \/ \E j \in Jobs : JobReadWordpress(j)
    \/ \E j \in Jobs, wp_success \in BOOLEAN : JobPost(j, wp_success)

\* api_status lines 113-120: the record under task_id is looked up and
\* serialised as it stands, while the worker may be between two writes;
\* no record gives 404
ApiStatus(j) ==
    /\ poll_view' = [task_id |-> j, status |-> processing_status[j]]
    /\ UNCHANGED <<job_wp, job_updates>>
    /\ UNCHANGED <<quotaVars, genVars, pubVars, appVars>>

\* the server has started; one job will be submitted
InitAppOneJob ==
    /\ default_wordpress = DefaultWordpress
    /\ env_file \in EnvFiles
    /\ processing_status = [j \in Jobs |-> NoTask]
    /\ job_pc = [j \in Jobs |-> IF j = 1 THEN "new" ELSE "unused"]
    /\ job_response = [j \in Jobs |-> NoResponse]
    /\ job_settings = [j \in Jobs |-> "none"]
    /\ job_ip = [j \in Jobs |-> NoIp]
    /\ job_ops = [j \in Jobs |-> << >>]
    /\ job_article = [j \in Jobs |-> << >>]
    /\ job_stages = [j \in Jobs |-> << >>]
    /\ job_failed = [j \in Jobs |-> "none"]

\* the pipeline with status requests arriving at any moment
NextStatusPoll ==
    \/ Next
    \/ \E j \in Jobs : ApiStatus(j)

(***************************************************************************)
(* Specifications                                                          *)
(***************************************************************************)

\* no worker has read its settings, no status request has been made
InitObs ==
    /\ job_wp = [j \in Jobs |-> << >>]
    /\ poll_view = [task_id |-> 0, status |-> NoTask]
    /\ job_updates = [j \in Jobs |-> 0]

InitQuotaSpec == InitQuota /\ InitGenIdle /\ InitPubIdle /\ InitAppIdle /\ InitObs

InitGenerateSpec == InitQuotaIdle /\ InitGenerate /\ InitPubIdle /\ InitAppIdle /\ InitObs

InitPublishSpec == InitQuotaIdle /\ InitGenIdle /\ InitPublish /\ InitAppIdle /\ InitObs

Init == InitLedger /\ InitGenIdle /\ InitPubIdle /\ InitApp /\ InitObs

SpecQuotaSerial == InitQuotaSpec /\ [][NextQuotaSerial]_vars

SpecQuotaConcurrent == InitQuotaSpec /\ [][NextQuotaConcurrent]_vars

SpecGenerate == InitGenerateSpec /\ [][NextGenerate]_vars

SpecPublish == InitPublishSpec /\ [][NextPublish]_vars

InitStatusPoll == InitLedger /\ InitGenIdle /\ InitPubIdle /\ InitAppOneJob /\ InitObs

SpecStatusPoll == InitStatusPoll /\ [][NextStatusPoll]_vars

\* the steps of job j once its task exists: the start of its thread, its
\* registry writes, and its stages, whose external calls return or raise
WorkerStep(j) ==
    \/ ApiStartWorker(j)
    \/ RegistryWrite(j)
    \/ JobLoadSettings(j)
    \/ \E ok \in BOOLEAN : JobDownload(j, ok)
    \/ \E ok \in BOOLEAN : JobTranscribe(j, ok)
    \/ \E ok \in BOOLEAN, article \in JobArticles : JobGenerate(j, ok, article)
    \/ JobReadWordpress(j)
    \/ \E wp_success \in BOOLEAN : JobPost(j, wp_success)

\* every started thread keeps running and every external call ends
WorkersRun == \A j \in Jobs : WF_vars(WorkerStep(j))

Spec == Init /\ [][Next]_vars

\* one submission, whose worker is scheduled
SpecWorkersRun == InitStatusPoll /\ [][Next]_vars /\ WorkersRun

(***************************************************************************)
(* Properties of the usage ledger                                          *)
(***************************************************************************)

\* the total the ledger file records for day d (0 when it has no such key)
RecordedTotal(d) == DictGet(load_usage_log, d, NewDayData).total

\* C1: with use_quota calls executed one at a time, the total recorded for
\* any day key never exceeds daily_limit
C1_SerialTotalWithinLimit == \A d \in Days : RecordedTotal(d) <= daily_limit

\* C1 witness: today's total stands at the limit after one call was recorded
\* and a later one refused
C1_Witness ==
    /\ RecordedTotal(clock) = daily_limit
    /\ \A w \in Workers : uq_pc[w] = "idle"
    /\ \E w \in Workers : uq_ret[w] = RetOk
    /\ \E w \in Workers : uq_ret[w] = RetLimit

\* C2: under interleaved use_quota calls every call that went past the check
\* read a total below the limit from the file, each on its own; the check,
\* the reload and the save being separate steps, that admits more successes
\* on a day than daily_limit (the witness)
C2_EachCallAdmittedBelowLimit ==
    \A w \in Workers :
        uq_pc[w] \in {"load", "cleanup", "open", "write"} =>
            /\ uq_info[w].can_use
            /\ uq_info[w].total_used < daily_limit

\* C2 witness: all calls returned success and today's successes, and the
\* total on record, are above daily_limit
C2_Witness ==
    /\ consumed[clock] > daily_limit
    /\ RecordedTotal(clock) > daily_limit
    /\ \A w \in Workers : uq_pc[w] = "idle" /\ uq_ret[w] = RetOk

(***************************************************************************)
(* Properties of the generator                                             *)
(***************************************************************************)

AllOverloaded(trace) == \A i \in 1..Len(trace) : trace[i] = "overloaded"

\* C5 (as the code has it): three attempts in all.  After two consecutive
\* overload failures a third attempt is made and the call does not fail by
\* overload if that attempt streams a response; after three consecutive
\* overload failures there is no fourth attempt and generate_article raises
\* the overload error
C5_ThreeAttemptsInAll ==
    /\ (Len(gen_trace) = 2 /\ AllOverloaded(gen_trace)) => gen_pc = "invoke"
    /\ (Len(gen_trace) = 3 /\ AllOverloaded(gen_trace)) =>
           gen_pc = "raised" /\ gen_error = "overloaded"
    /\ (Len(gen_trace) = 3 /\ gen_trace[3] = "content") => gen_error # "overloaded"

\* C5 witness: the backend was overloaded three times running
C5_Witness ==
    /\ gen_trace = <<"overloaded", "overloaded", "overloaded">>
    /\ gen_pc = "raised"
    /\ Len(gen_waits) = 2

\* C5 as stated: after three consecutive overload failures the call is still
\* going, about to invoke the backend a fourth time
C5_FourthAttemptAfterThreeOverloads ==
    (Len(gen_trace) = 3 /\ AllOverloaded(gen_trace)) => gen_pc = "invoke"

\* C6: the backend is invoked at most max_retries (3) times in one call; an
\* invocation after the first follows only overload failures; any other
\* failure, a response that does not parse included, ends the call with that
\* failure and no further invocation
C6_RetryOnlyAfterOverload ==
    /\ Len(gen_trace) <= max_retries
    /\ AllOverloaded(SubSeq(gen_trace, 1, Len(gen_trace) - 1))
    /\ gen_pc = "invoke" => AllOverloaded(gen_trace) /\ Len(gen_trace) = gen_attempt
                            /\ gen_attempt < max_retries
    /\ (gen_trace # << >> /\ gen_trace[Len(gen_trace)] = "other") =>
           gen_pc = "raised" /\ gen_error = "other"
    /\ gen_error = "parse" => gen_pc = "raised" /\ gen_trace[Len(gen_trace)] = "content"
    /\ Len(gen_waits) = Len(SelectSeq(gen_trace, LAMBDA t : t = "overloaded"))
                          - (IF gen_error = "overloaded" THEN 1 ELSE 0)

\* C6 witness: a failure that is no overload, met on the second attempt,
\* ended the call
C6_Witness ==
    /\ gen_trace = <<"overloaded", "other">>
    /\ gen_pc = "raised"
    /\ gen_error = "other"

\* the first result parsed, has a title, and is shorter than the minimum
UnderLengthFirstResult ==
    /\ gen_how # "none"
    /\ "title" \in DOMAIN gen_article
    /\ CharCount(gen_article) < gen_min

\* C7 as stated: with an under-length first result generate_article does not
\* fail
C7_UnderLengthDoesNotFail == UnderLengthFirstResult => gen_pc # "raised"

\* C8: an article generate_article returns has at least min_characters
\* characters of content once the tags are stripped
C8_ReturnedArticleLongEnough ==
    gen_pc = "returned" => CharCount(gen_article) >= gen_min

\* C8 witness: an article whose content holds a tag is returned, its stripped
\* length exactly the minimum
C8_Witness ==
    /\ gen_pc = "returned"
    /\ gen_min > 0
    /\ CharCount(gen_article) = gen_min
    /\ Len(gen_article["content"]) > gen_min

\* one of the three strategies, taken alone, parses the response
SomeStrategyParses(content) ==
    \/ json_loads_ok(content)
    \/ FenceStart(content) # 0 /\ json_loads_ok(FenceGroup(content))
    \/ BraceStart(content) # 0 /\ json_loads_ok(BraceGroup(content))

\* C9 as stated: parsing fails only if none of the three strategies parses
C9_FailsOnlyIfNoStrategyParses ==
    (gen_pc = "raised" /\ gen_error = "parse") => ~SomeStrategyParses(gen_content)

(***************************************************************************)
(* Properties of the poster                                                *)
(***************************************************************************)

\* the running call has fetched the editor page or sent the entry
EditorTouched ==
    \E i \in 1..Len(pub_requests) : pub_requests[i] \in {GetEditor, PostEntry}

\* C10: within post_article the editor page is fetched and the entry posted
\* only after _login returned True on a login response whose final URL is an
\* admin page and no login page; when the final URL is the login page, or
\* _login fails otherwise, post_article returns False having touched neither;
\* a direct _login call touches neither
C10_EditorOnlyAfterLogin ==
    /\ EditorTouched =>
           /\ pub_entry = "post_article"
           /\ pub_login = "True"
           /\ SubSeq(pub_requests, 1, 2) = <<GetLogin, PostLogin>>
    /\ pub_login = "False" =>
           pub_ret = "False" /\ pub_pc = "ready" /\ ~EditorTouched
    /\ (/\ pub_entry = "post_article"
        /\ pub_requests = <<GetLogin, PostLogin>>
        /\ (UrlHas(pub_url, "login") \/ ~UrlHas(pub_url, "wp-admin"))) => pub_login = "False"
    /\ (pub_pc \in {"editor_get", "submit"}) => pub_login = "True"

\* C10 witness: the login response came back on an admin URL of the login
\* page; post_article returned False after the two login requests
C10_Witness ==
    /\ pub_entry = "post_article"
    /\ pub_requests = <<GetLogin, PostLogin>>
    /\ UrlHas(pub_url, "wp-admin")
    /\ UrlHas(pub_url, "login")
    /\ pub_login = "False"
    /\ pub_ret = "False"

\* C11: after a successful login, an editor page whose first form lacks one
\* of _wpnonce, user_ID, post_ID makes post_article return False with the
\* editor page fetched once and no entry posted
C11_MissingHiddenFieldIsFatal ==
    (/\ GetEditor \in {pub_requests[i] : i \in 1..Len(pub_requests)}
     /\ {"_wpnonce", "user_ID", "post_ID"} \ pub_hidden # {}) =>
        /\ pub_ret = "False"
        /\ pub_pc = "ready"
        /\ pub_login = "True"
        /\ pub_requests = <<GetLogin, PostLogin, GetEditor>>

\* C11 witness: the editor form came with every hidden field but post_ID
C11_Witness ==
    /\ pub_hidden = {"_wpnonce", "user_ID", "_wp_http_referer"}
    /\ pub_login = "True"
    /\ pub_ret = "False"
    /\ pub_requests = <<GetLogin, PostLogin, GetEditor>>

\* C12: post_article never raises: whenever a post_article call is over it
\* has returned True or False, whatever raised, failed or was missing on
\* the way
C12_PostArticleNeverRaises ==
    /\ pub_ret # "raised"
    /\ (pub_entry = "post_article" /\ pub_pc = "ready") => pub_ret \in {"True", "False"}

\* C12 witness: the article has no title; the KeyError of post_data was
\* turned into False after the editor page had been fetched
C12_Witness ==
    /\ pub_entry = "post_article"
    /\ "title" \notin DOMAIN pub_article
    /\ pub_requests = <<GetLogin, PostLogin, GetEditor>>
    /\ required_fields \subseteq pub_hidden
    /\ pub_pc = "ready"
    /\ pub_ret = "False"

\* the site address (as the constructor keeps it), the username or the
\* password of the poster is empty
SettingsIncomplete ==
    \/ NormalizedSiteUrl(pub_settings.site_url) = << >>
    \/ pub_settings.username = ""
    \/ pub_settings.password = ""

\* C13: with an empty site address, username or password post_article
\* returns False, no session having been created and no request sent
C13_IncompleteSettingsShortCircuit ==
    (SettingsIncomplete /\ pub_entry = "post_article") =>
        /\ pub_ret = "False"
        /\ pub_pc = "ready"
        /\ pub_session = "None"
        /\ pub_requests = << >>

\* C13 witness: post_article has returned on a poster that has a site
\* address and a username and no password
C13_Witness ==
    /\ pub_entry = "post_article"
    /\ pub_settings.site_url # << >>
    /\ pub_settings.username # ""
    /\ pub_settings.password = ""
    /\ pub_ret = "False"
    /\ pub_session = "None"

\* one of the segments occurs in the URL, as a whole segment
HasSegment(url, segments) == \E i \in 1..Len(url) : url[i] \in segments

\* the running post_article call has posted the entry and got a response
Submitted ==
    /\ pub_requests = <<GetLogin, PostLogin, GetEditor, PostEntry>>
    /\ pub_url # << >>

\* C14 (as the code has it): the submission counts as success exactly when
\* the final URL holds post.php together with the text message=6 or the text
\* message=1, which message=10 holds too, or holds edit.php; any other
\* response makes post_article return False; the entry is posted once
C14_SubmissionClassifiedByUrlText ==
    /\ Submitted =>
           /\ pub_pc = "ready"
           /\ pub_ret = "True" <=>
                  \/ /\ HasSegment(pub_url, {"post.php"})
                     /\ HasSegment(pub_url, {"message=6", "message=1", "message=10"})
                  \/ HasSegment(pub_url, {"edit.php"})
           /\ pub_ret \in {"True", "False"}
    /\ Len(SelectSeq(pub_requests, LAMBDA r : r = PostEntry)) <= 1
    /\ (Len(pub_requests) = 4 /\ pub_url = << >>) => pub_ret = "False"

\* C14 witness: the response came back on post.php with message=10, the
\* code of a saved draft, and post_article returned True
C14_Witness ==
    /\ Submitted
    /\ pub_url = <<"post.php", "message=10">>
    /\ pub_ret = "True"

\* C14 as stated: success exactly when the final URL is the post-edit screen
\* with one of the known codes (6, 1) or is the listing screen
C14_SuccessOnlyOnKnownCode ==
    Submitted =>
        (pub_ret = "True" <=>
            \/ /\ HasSegment(pub_url, {"post.php"})
               /\ HasSegment(pub_url, {"message=6", "message=1"})
            \/ HasSegment(pub_url, {"edit.php"}))

(***************************************************************************)
(* Properties of the pipeline                                              *)
(***************************************************************************)

\* the worker of job j has made its last registry write
Finished(j) == job_pc[j] = "finish" /\ job_ops[j] = << >>

\* the publishing stage of job j has started: update_status(4, ..) of line 304
PublishingStarted(j) == \E i \in 1..Len(job_stages[j]) : job_stages[j][i] = 4

LastLog(j) == processing_status[j].logs[Len(processing_status[j].logs)]

\* C3: once the publishing stage of a job has started, and whatever becomes
\* of it, the task's result is the article the generation stage returned
C3_ResultStoredBeforePublishing ==
    \A j \in Jobs :
        PublishingStarted(j) =>
            /\ job_article[j] # << >>
            /\ processing_status[j].result = job_article[j]

\* C3 witness: a job whose post failed has finished, its article on record
C3_Witness ==
    \E j \in Jobs :
        /\ Finished(j)
        /\ job_failed[j] = "publishing"
        /\ processing_status[j].current_step = 4
        /\ processing_status[j].result = job_article[j]
        /\ job_article[j] # << >>

\* the step of the stage a failure belongs to
StageOf(failed) ==
    CASE failed = "acquisition" -> 1
      [] failed = "transcription" -> 2
      [] failed = "generation" -> 3
      [] failed \in {"publishing", "publishing settings"} -> 4
      [] OTHER -> 0

\* the task of a finished job carries the error and its ERROR log entry
ErrorRecorded(j) ==
    /\ processing_status[j].error # "None"
    /\ processing_status[j].logs # << >>
    /\ LastLog(j).level = "ERROR"
    /\ LastLog(j).message = processing_status[j].error

\* a failure of job j: no stage after the failing one has started
NoLaterStage(j) ==
    job_failed[j] \notin {"none", "merge"} =>
        \A i \in 1..Len(job_stages[j]) : job_stages[j][i] <= StageOf(job_failed[j])

C4_Recorded ==
    \A j \in Jobs :
        /\ NoLaterStage(j)
        /\ (Finished(j) /\ job_failed[j] \in {"acquisition", "transcription", "generation",
                                              "publishing settings"}) => ErrorRecorded(j)
        /\ (Finished(j) /\ job_failed[j] = "publishing") =>
               /\ processing_status[j].error = "None"
               /\ processing_status[j].step_name = "complete"
               /\ LastLog(j).level = "INFO"
               /\ processing_status[j].result = job_article[j]

\* a step changes the task of one job at most, and only by that job's worker
C4_Frame ==
    \A j \in Jobs :
        processing_status'[j] # processing_status[j] =>
            /\ \A k \in Jobs \ {j} : processing_status'[k] = processing_status[k]
            /\ job_pc[j] = "checked" \/ job_ops[j] # << >>

\* C4 (as the code has it): a failure of acquisition, transcription or
\* generation, and an exception of the publishing stage raised outside its
\* inner try block, set the task's error and append an ERROR entry; a post
\* that returns False or raises inside the inner try leaves error null, logs
\* an INFO entry and labels the task complete, with the article as result;
\* no later stage of the job runs, and no other job's task is changed
C4_StageFailureRecorded == []C4_Recorded /\ [][C4_Frame]_vars

\* C4 witness: one job finished with a failed post, another with a failed
\* generation
C4_Witness ==
    \E j, k \in Jobs :
        /\ Finished(j) /\ job_failed[j] = "publishing"
        /\ processing_status[j].error = "None"
        /\ Finished(k) /\ job_failed[k] = "generation"
        /\ ErrorRecorded(k)

\* C4 as stated: the failure of any of the four stages is on record as a
\* non-null error and an ERROR log entry
C4_EveryStageFailureSetsError ==
    \A j \in Jobs :
        (Finished(j) /\ StageOf(job_failed[j]) # 0) => ErrorRecorded(j)

\* the wordpress settings the defaults, the .env file and the job's own
\* override give
OwnWordpress(j) ==
    merged_wordpress(load_settings(DefaultWordpress, env_file), job_settings[j])

\* C15 as stated: the publishing settings a job's worker reads are the
\* defaults merged with that job's own override and nothing else
C15_SettingsOfOwnJobOnly ==
    \A j \in Jobs : job_wp[j] # << >> => job_wp[j] = <<OwnWordpress(j)>>

\* a task record in which the last log entry belongs to the fields: it
\* carries the error if there is one, else the status message
WholeRecord(status) ==
    (status.timestamp # "None" \/ status.error # "None") =>
        /\ status.logs # << >>
        /\ status.logs[Len(status.logs)].message =
               (IF status.error # "None" THEN status.error ELSE status.status)
        /\ status.logs[Len(status.logs)].level =
               (IF status.error # "None" THEN "ERROR" ELSE "INFO")

\* C16 as stated: a status request never reads a task record whose fields
\* are written and whose log entry is not
C16_PollSeesWholeUpdates == poll_view.task_id # 0 => WholeRecord(poll_view.status)

\* what load_usage_log reads from a file
Loaded(file) == IF file.valid THEN file.data ELSE EmptyDict

\* worker w returns from use_quota with a refusal in this step
RefusedReturn(w) ==
    /\ uq_pc[w] \notin {"idle", "unused"}
    /\ uq_pc'[w] = "idle"
    /\ uq_ret'[w] \in {RetLimit, RetSaveFailed}

\* C17 as stated: when a use_quota call returns a refusal (limit reached or
\* save failed), the ledger read from the file is the one that was there
\* when the call began
C17_RefusedCallLeavesLedger ==
    [][\A w \in Workers : RefusedReturn(w) => Loaded(usage_log') = Loaded(uq_before[w])]_vars

\* C18 as stated: once daily_limit use_quota calls have succeeded today and
\* no call is running, get_usage_info reports remaining 0 and can_use false
C18_LimitUsesLeaveNothing ==
    (consumed[clock] = daily_limit /\ \A w \in Workers : uq_pc[w] = "idle") =>
        LET usage_info == get_usage_info(load_usage_log, get_today_key)
        IN  usage_info.remaining = 0 /\ ~usage_info.can_use

\* worker w runs cleanup_old_logs in this step
CleanupStep(w) == uq_pc[w] = "cleanup" /\ uq_pc'[w] = "open"

\* worker w returns from use_quota with success in this step
RecordedReturn(w) == uq_pc[w] = "write" /\ uq_pc'[w] = "idle" /\ uq_ret'[w] = RetOk

RecordedToday == DictGet(Loaded(usage_log), clock, NewDayData).total

\* api_process takes a step for submission j: the usage check with the body
\* checks, or the use_quota call with what follows it
SubmissionStep(j) == job_pc[j] \in {"new", "checked"} /\ job_pc'[j] # job_pc[j]

\* a submission answered with an error has no task record and no worker
C20_RejectedHasNoTask ==
    \A j \in Jobs :
        job_pc[j] = "rejected" =>
            /\ processing_status[j] = NoTask
            /\ job_ops[j] = << >>
            /\ job_stages[j] = << >>

\* a step of api_process made while the file records daily_limit uses for
\* today answers 429 and changes neither the registry nor the file; an
\* answered submission stays answered
C20_Frame ==
    \A j \in Jobs :
        /\ (SubmissionStep(j) /\ RecordedToday = daily_limit) =>
              /\ job_pc'[j] = "rejected"
              /\ job_response'[j].code = 429
              /\ job_response'[j].message \in {"daily limit reached", RetLimit}
              /\ processing_status' = processing_status
              /\ usage_log' = usage_log
        /\ job_pc[j] = "rejected" => job_pc'[j] = "rejected"

\* C20: a submission handled while today's recorded usage equals the daily
\* limit is refused with 429; no task record is created for it, no worker
\* runs for it, and the usage file is left as it was
C20_FullDaySubmissionRefused == []C20_RejectedHasNoTask /\ [][C20_Frame]_vars

\* a submission has been refused on a day whose recorded usage is at the limit
C20_Witness ==
    \E j \in Jobs :
        /\ RecordedToday = daily_limit
        /\ job_pc[j] = "rejected"
        /\ job_response[j].code = 429
        /\ job_response[j].message = "daily limit reached"
        /\ processing_status[j] = NoTask

\* the answer to submission j is a refusal for the daily limit, from the check
\* of api_process line 49 or from use_quota line 70
QuotaRefusal(j) ==
    /\ job_response[j].code = 429
    /\ job_response[j].message \in {"daily limit reached", RetLimit}

\* C21 as stated: every refusal of a submission for the daily limit carries
\* the configured daily limit and the next reset time
C21_RefusalReportsLimitAndReset ==
    \A j \in Jobs :
        QuotaRefusal(j) =>
            /\ job_response[j].daily_limit = <<daily_limit>>
            /\ job_response[j].next_reset = <<clock + 1>>

\* every task's step is within its total
C22_StepWithinTotal ==
    \A j \in Jobs : processing_status[j].current_step <= processing_status[j].total_steps

\* no write to the registry lowers a task's step
C22_StepNotLowered ==
    \A j \in Jobs : processing_status'[j].current_step >= processing_status[j].current_step

\* C22: from the creation of a task record through every registry write to
\* the end of its worker, current_step never decreases and never exceeds
\* total_steps
C22_StepMonotoneAndBounded == []C22_StepWithinTotal /\ [][C22_StepNotLowered]_vars

\* one job has gone through all four steps, another has stopped with an
\* error at an earlier step
C22_Witness ==
    \E j, k \in Jobs :
        /\ Finished(j)
        /\ job_stages[j] = <<1, 2, 3, 4>>
        /\ processing_status[j].current_step = total_steps
        /\ Finished(k)
        /\ processing_status[k].error # "None"
        /\ processing_status[k].current_step \in 1..3

\* the worker of job j has ended and none of its stages failed
CleanRun(j) == Finished(j) /\ job_failed[j] = "none"

\* C23: a job submitted on a day without recorded uses, whose stages all
\* succeed, has gone through the steps 1, 2, 3, 4 in this order and ends at
\* step 4 labelled complete, with no error, with the generated article as
\* its result, and with one use recorded for the day
C23_CleanRunReachesComplete ==
    \A j \in Jobs :
        (CleanRun(j) /\ consumed[clock] = 1) =>
            /\ job_stages[j] = <<1, 2, 3, 4>>
            /\ processing_status[j].current_step = 4
            /\ processing_status[j].total_steps = 4
            /\ processing_status[j].step_name = "complete"
            /\ processing_status[j].error = "None"
            /\ job_article[j] # << >>
            /\ processing_status[j].result = job_article[j]
            /\ RecordedToday = 1

\* a job of a day without earlier uses has ended with its article posted
C23_Witness ==
    \E j \in Jobs :
        /\ CleanRun(j)
        /\ consumed[clock] = 1
        /\ processing_status[j].status = "all done, WordPress post succeeded"
        /\ processing_status[j].result # << >>
        /\ RecordedToday = 1

\* api_process puts the record of task j into the registry in this step
TaskCreated(j) == processing_status[j] = NoTask /\ processing_status'[j] # NoTask

\* C24 (as the code has it): a task record is created at step 1 of
\* total_steps, with no error, no timestamp, no result and an empty log
C24_NewTaskAtStepOne ==
    [][\A j \in Jobs :
          TaskCreated(j) =>
              /\ processing_status'[j].current_step = 1
              /\ processing_status'[j].total_steps = total_steps
              /\ processing_status'[j].error = "None"
              /\ processing_status'[j].timestamp = "None"
              /\ processing_status'[j].logs = << >>
              /\ processing_status'[j].result = << >>]_vars

\* a task record has been created and its worker has not written yet
C24_Witness ==
    \E j \in Jobs :
        /\ job_pc[j] = "start"
        /\ job_response[j].code = 200
        /\ processing_status[j].current_step = 1
        /\ processing_status[j].total_steps = total_steps
        /\ processing_status[j].logs = << >>

\* C24 as stated: a task record is created at step 0 of total_steps, with no
\* error and an empty log
C24_NewTaskAtStepZero ==
    [][\A j \in Jobs :
          TaskCreated(j) =>
              /\ processing_status'[j].current_step = 0
              /\ processing_status'[j].total_steps = total_steps
              /\ processing_status'[j].error = "None"
              /\ processing_status'[j].logs = << >>]_vars

\* the log write of an update_status call or of a failure record of task j
\* is still to be made
LogPending(j) ==
    /\ job_ops[j] # << >>
    /\ Head(job_ops[j]).kind \in {"log", "error_log"}

\* the log of task j has as many entries as update_status calls and failure
\* records have been completed on it
C25_LogLengthIsUpdateCount ==
    \A j \in Jobs :
        Len(processing_status[j].logs) = job_updates[j] - (IF LogPending(j) THEN 1 ELSE 0)

\* a step changes the log of task j only by appending one entry, ERROR with
\* the error as message when the record's error is set and INFO with the
\* status message otherwise
C25_AppendOnly ==
    \A j \in Jobs :
        processing_status'[j].logs # processing_status[j].logs =>
            /\ LogPending(j)
            /\ processing_status'[j].logs =
                   Append(processing_status[j].logs,
                          IF processing_status[j].error # "None"
                          THEN [level |-> "ERROR", message |-> processing_status[j].error]
                          ELSE [level |-> "INFO", message |-> processing_status[j].status])

\* C25: every update_status call and every failure record appends exactly
\* one entry to the task's log, ERROR when the error is set and INFO
\* otherwise; the entries already there stay as they are and in their order,
\* and the log is as long as the number of updates and failure records made
C25_OneLogEntryPerUpdate == []C25_LogLengthIsUpdateCount /\ [][C25_AppendOnly]_vars

\* a worker has ended with a failure record after several updates
C25_Witness ==
    \E j \in Jobs :
        /\ Finished(j)
        /\ job_updates[j] >= 3
        /\ Len(processing_status[j].logs) = job_updates[j]
        /\ LastLog(j).level = "ERROR"
        /\ processing_status[j].logs[1].level = "INFO"

\* the worker thread of submission j has been started
WorkerStarted(j) == job_pc[j] \notin {"new", "checked", "rejected", "unused", "created"}

\* a started worker and a returned task_id both have their record in the registry
C26_RecordExists ==
    \A j \in Jobs :
        (WorkerStarted(j) \/ job_response[j].code = 200) => processing_status[j] # NoTask

\* the task_id is returned when the record is there and before the worker
\* has written anything; a record is never taken out of the registry; a
\* status request for a returned task_id reads a record
C26_Frame ==
    /\ \A j \in Jobs :
          /\ (job_response[j].code # 200 /\ job_response'[j].code = 200) =>
                /\ processing_status[j] # NoTask
                /\ ~WorkerStarted(j)
                /\ job_stages'[j] = << >>
                /\ job_updates'[j] = 0
          /\ processing_status[j] # NoTask => processing_status'[j] # NoTask
    /\ poll_view' # poll_view =>
          (job_response[poll_view'.task_id].code = 200 => poll_view'.status # NoTask)

C27_ReturnedArticleHasTitleAndContent ==
    gen_pc = "returned" =>
        /\ "title" \in DOMAIN gen_article
        /\ gen_article["title"] # ""
        /\ "content" \in DOMAIN gen_article
        /\ gen_article["content"] # << >>

\* C28 as stated: _login called first on a poster with complete settings
\* makes the login exchange before it returns
C28_DirectLoginMakesExchange ==
    (/\ pub_calls = 1
     /\ pub_entry = "_login"
     /\ ~SettingsIncomplete
     /\ pub_login_ret \in {"True", "False"}) =>
        /\ pub_requests # << >>
        /\ pub_requests[1] = GetLogin

\* C29: the sleep before the k-th retry (k = 1, 2) lasts 2^(k-1) units plus
\* a jitter of at most one unit (in 1/JitterSteps units here), so the sleeps
\* never get shorter; there is one sleep per retry, none after the last
\* attempt
C29_BackoffDoublesFromOne ==
    /\ Len(gen_waits) = gen_attempt
    /\ Len(gen_waits) <= max_retries - 1
    /\ Len(gen_trace) <= Len(gen_waits) + 1
    /\ \A k \in 1..Len(gen_waits) :
          /\ gen_waits[k] >= 2^(k - 1) * JitterSteps
          /\ gen_waits[k] <= 2^(k - 1) * JitterSteps + JitterSteps
    /\ \A k \in 1..(Len(gen_waits) - 1) : gen_waits[k] <= gen_waits[k + 1]

\* three attempts were refused as overloaded: two sleeps, the second longer
C29_Witness ==
    /\ gen_pc = "raised"
    /\ gen_trace = <<"overloaded", "overloaded", "overloaded">>
    /\ Len(gen_waits) = 2
    /\ gen_waits[1] < gen_waits[2]

\* C30 as stated: with one submission at a time, the number of tasks created
\* today (one per successful use_quota call) is today's total in the usage file
C30_TasksCreatedEqualLedgerTotal == consumed[clock] = RecordedToday

\* every use_quota call made so far has returned success, each by another
\* request thread, and the usage file parses
AllCallsRecorded ==
    /\ \A w \in Workers : uq_pc[w] = "idle" /\ uq_ret[w] \in {RetOk, "none"}
    /\ uq_calls = Cardinality({w \in Workers : uq_ret[w] = RetOk})
    /\ usage_log.valid

\* C31 as stated: whatever the interleaving of concurrent use_quota calls,
\* today's total in the usage file is the number of calls that returned
\* success today
C31_NoIncrementLost == AllCallsRecorded => RecordedToday = consumed[clock]

\* the task of job j is at its end: labelled complete at the last step, or
\* with an error
Terminal(j) ==
    \/ processing_status[j].error # "None"
    \/ /\ processing_status[j].current_step = total_steps
       /\ processing_status[j].step_name = "complete"

\* the step, error and result of a task at its end stay as they are
C32_TerminalFrozen ==
    \A j \in Jobs :
        Terminal(j) =>
            /\ processing_status'[j].current_step = processing_status[j].current_step
            /\ processing_status'[j].error = processing_status[j].error
            /\ processing_status'[j].result = processing_status[j].result

\* C32: when threads keep running and every external call returns or
\* raises, the task of every accepted job comes to its end, complete at the
\* last step or with an error, and from then on its step, error and result
\* do not change
C32_AcceptedJobTerminates ==
    /\ \A j \in Jobs : (job_pc[j] = "created") ~> Terminal(j)
    /\ [][C32_TerminalFrozen]_vars

\* a worker has ended with an error and the article it had generated
C32_Witness ==
    \E j \in Jobs :
        /\ Finished(j)
        /\ Terminal(j)
        /\ processing_status[j].error # "None"
        /\ processing_status[j].result # << >>
        /\ processing_status[j].current_step = total_steps

=============================================================================
